---- MODULE Spec2Model ----
(***************************************************************************)
(* Compile-time method selection of jni-bind (method_selection.h).         *)
(*                                                                         *)
(* MethodSelection resolves a call site's argument types against the       *)
(* overloads of one method: every overload is a set of permutations (one   *)
(* accepted representation per parameter), every permutation is compared   *)
(* parameter by parameter with the supplied types by ParamCompare.         *)
(*                                                                         *)
(* Template instantiations are modelled as operators over                  *)
(*   m   the method: the sequence of its overloads, each the sequence of   *)
(*       its declared parameters (GetParams().values_),                    *)
(*   overload_idx, permutation_idx, param_idx   the 0-based indices the    *)
(*       templates are instantiated with,                                  *)
(*   Ts  the sequence of (decayed) argument types.                         *)
(***************************************************************************)
EXTENDS Integers, Sequences, FiniteSets

VARIABLES
    method,      \* Spec: the overload list MethodSelection is instantiated on
    args,        \* Spec: the argument types of the call site, as written
    viable,      \* Spec: <<ArgSetViable<Ts...>()>> once instantiated, <<>> before
    pair,        \* Spec: <<IdxPair<Ts...>()>> once instantiated, <<>> before
    ovl,         \* SpecPerm: the parameter list of the overload enumerated
    decoded,     \* SpecPerm: the permutations instantiated: index and digits
    param,       \* SpecCompare: the declared parameter
    sel,         \* SpecCompare: the selection_idx of the permutation
    query,       \* SpecCompare: the supplied type (Query)
    cmp,         \* SpecCompare: <<ParamCompare::val>> once instantiated
    seen,        \* SpecDecay: the results of the same call, qualified otherwise
    found,       \* SpecFind: the Overload index each Find alias has named
    ldr          \* SpecLoader: one class loader query and its answers

vars ==
    <<method, args, viable, pair, ovl, decoded, param, sel, query, cmp, seen,
      found, ldr>>

\* ------------------------------------------------------------------ bounds

\* Overloads per method.
MaxOverloads == 2

\* Parameters declared by a method, over all of its overloads (Spec).
MaxParams == 3

\* Arguments of a call site (Spec).
MaxArgs == 2

\* Parameters of the overload whose permutations are enumerated (SpecPerm).
MaxPermParams == 3

\* Parameters declared by a method, over all of its overloads (SpecDecay).
MaxDecayParams == 2

\* Arguments of a call site (SpecDecay).
MaxDecayArgs == 2

\* The cur_idx arguments IdxOfAncestor is called with (SpecLoader).
MaxCurIdx == 2

\* std::numeric_limits<size_t>::max(): larger than every index; the largest
\* integer of the model stands for it.
kNoSelection == 2147483647

\* ------------------------------------------------------------------- types

\* A C++ type as the selection sees it.
\*   id      the type (or, for a class template, the template)
\*   targs   the template-parameter shape the partial specialisations of
\*           ParamCompare::Helper deduce: 3 for T<class_v, class_loader_v,
\*           jvm_v>, 4 for T<class_v, class_loader_v, jvm_v, DangerousMoveTag>,
\*           0 for any other type
\*   refbase is_base_of_v<RefBaseTag<jobject>, T>
\*   cls     class_v.name_ of a class reference, "" otherwise
\*   cv      top-level const/volatile
\*   vc      "val", "lref" or "rref": the reference qualification
Type(id, targs, refbase, cls) ==
    [id |-> id, targs |-> targs, refbase |-> refbase, cls |-> cls,
     cv |-> FALSE, vc |-> "val"]

Plain(id) == Type(id, 0, FALSE, "")

Const(t) == [t EXCEPT !.cv = TRUE]
LRef(t) == [t EXCEPT !.vc = "lref"]
RRef(t) == [t EXCEPT !.vc = "rref"]

IntT == Plain("int")
OwnedString == Plain("OwnedString")
StringView == Plain("StringView")
CharPtr == Plain("CharPtr")
JObject == Plain("jobject")
RefBaseTag == Type("RefBaseTag<jobject>", 0, TRUE, "")
LocalObject(cls) == Type("LocalObject", 3, TRUE, cls)
GlobalObject(cls) == Type("GlobalObject", 3, TRUE, cls)
LocalObjectMove(cls) == Type("LocalObject", 4, TRUE, cls)
LocalArray(cls) == Type("LocalArray", 3, FALSE, cls)

\* std::remove_cv_t: a reference type has no top-level qualifier to remove.
RemoveCv(t) == IF t.vc = "val" THEN [t EXCEPT !.cv = FALSE] ELSE t

\* std::decay_t on the types modelled (no arrays, no functions): the
\* reference is removed, then the top-level cv-qualifiers.
Decay(t) == [t EXCEPT !.cv = FALSE, !.vc = "val"]

DecayAll(Ts) == [i \in DOMAIN Ts |-> Decay(Ts[i])]

\* --------------------------------------------------- declared parameters

\* A declared parameter (an element of GetParams().values_): its JNI type
\* and, for a class, the name_ ParamCompare reads.
Param(jtype, name) == [jtype |-> jtype, name_ |-> name]

JInt == Param("jint", "")
JString == Param("String", "")
JView == Param("View", "")
JCharSeq == Param("CharSequence", "")
Object(name) == Param("jobject", name)

\* ProxyAsArgMetaFunc: the ordered representations a declared parameter
\* accepts as an argument.  String is {OwnedString, StringView}; an object
\* accepts the raw handle or anything tagged RefBaseTag<jobject>.  Nothing in
\* the selection stops two declared types from accepting the same
\* representation at different positions, as String, View and CharSequence
\* do.
ProxyAsArg(p) ==
    CASE p.jtype = "jint" -> <<IntT>>
      [] p.jtype = "String" -> <<OwnedString, StringView>>
      [] p.jtype = "View" -> <<StringView>>
      [] p.jtype = "CharSequence" -> <<StringView, OwnedString, CharPtr>>
      [] p.jtype = "jobject" -> <<JObject, RefBaseTag>>

\* ------------------------------------------- metaprogramming/n_bit_sequence

\* NBit<value, max>: one digit with its own radix.  size is the number of
\* values the digit takes, max + 1 in size_t arithmetic: 0 for the digit
\* generated from an empty tuple, whose max is tuple_size - 1 wrapped around.
NBit(value, size) == [value_ |-> value, size |-> size]

\* GenerateBitSequenceFromTupSetsFunc: one zeroed digit per tuple, its radix
\* the size of the tuple.
GenerateBitSequenceFromTupSets(tups) ==
    [i \in DOMAIN tups |-> NBit(0, Len(tups[i]))]

\* NBitSequence::max_representable_size_: the product of the radixes, 0 for
\* the sequence of no digits.
RECURSIVE ProductOfSizes(_)
ProductOfSizes(seq) ==
    IF Len(seq) = 1 THEN seq[1].size
    ELSE seq[1].size * ProductOfSizes(Tail(seq))

max_representable_size_(seq) ==
    IF seq = <<>> THEN 0 ELSE ProductOfSizes(seq)

\* One increment: the last digit is the least significant, a digit that
\* wraps carries into the digit before it.
RECURSIVE IncrementOnce(_)
IncrementOnce(seq) ==
    IF seq = <<>> THEN seq
    ELSE LET n == Len(seq)
             d == seq[n]
         IN IF d.size = 0 THEN seq
            ELSE IF d.value_ + 1 < d.size
            THEN [seq EXCEPT ![n] = NBit(d.value_ + 1, d.size)]
            ELSE Append(IncrementOnce(SubSeq(seq, 1, n - 1)), NBit(0, d.size))

\* Increment_t<Seq, I>: Seq incremented I times.
RECURSIVE Increment_t(_, _)
Increment_t(seq, I) ==
    IF I = 0 THEN seq ELSE Increment_t(IncrementOnce(seq), I - 1)

\* NBitSequence::GetBit<I>: the I-th digit, counted from the left, from 0.
GetBit(seq, I) == seq[I + 1]

\* ---------------------------------------------------------------- std::min

\* std::min(std::initializer_list<size_t>) of a non-empty list.
StdMin(S) == CHOOSE x \in S : \A y \in S : x <= y

\* ---------------------------------------------------------------- Overload

\* MethodSelection::NumOverloads
NumOverloads(m) == Len(m)

\* Overload::GetParams().values_
GetParams(m, overload_idx) == m[overload_idx + 1]

\* Overload::ParamsProxiedTemp: ProxyAsArgMetaFunc over every parameter.
ParamsProxiedTemp(m, overload_idx) ==
    LET ps == GetParams(m, overload_idx)
    IN [i \in DOMAIN ps |-> ProxyAsArg(ps[i])]

\* Overload::ParamsProxied: std::tuple<std::tuple<>> for no parameters.
ParamsProxied(m, overload_idx) ==
    IF ParamsProxiedTemp(m, overload_idx) = <<>>
    THEN << <<>> >>
    ELSE ParamsProxiedTemp(m, overload_idx)

\* Overload::NBitSequence
NBitSequence(m, overload_idx) ==
    GenerateBitSequenceFromTupSets(ParamsProxied(m, overload_idx))

\* Mutant: the size of the sequence is taken as it is.
permutation_count_Unguarded(m, overload_idx) ==
    max_representable_size_(NBitSequence(m, overload_idx))

\* Overload::permutation_count
permutation_count(m, overload_idx) ==
    IF max_representable_size_(NBitSequence(m, overload_idx)) = 0
    THEN 1
    ELSE max_representable_size_(NBitSequence(m, overload_idx))

\* ------------------------------------------- Permutation, ParamSelection

\* Mutant: the sequence is not incremented.
NBitSelection_Unincremented(m, overload_idx, permutation_idx) ==
    NBitSequence(m, overload_idx)

\* Permutation::NBitSelection
NBitSelection(m, overload_idx, permutation_idx) ==
    Increment_t(NBitSequence(m, overload_idx), permutation_idx)

\* ParamSelection::selection_idx
selection_idx(m, overload_idx, permutation_idx, param_idx) ==
    GetBit(NBitSelection(m, overload_idx, permutation_idx), param_idx).value_

\* ParamSelection::GetParam
GetParam(m, overload_idx, param_idx) ==
    GetParams(m, overload_idx)[param_idx + 1]

\* ParamSelection::ParamT: the selection_idx-th representation of the
\* param_idx-th parameter.
ParamT(m, overload_idx, permutation_idx, param_idx) ==
    ParamsProxied(m, overload_idx)[param_idx + 1]
        [selection_idx(m, overload_idx, permutation_idx, param_idx) + 1]

\* ------------------------------------------------------------ ParamCompare

\* Mutant: any class reference matches the class-reference representation.
ParamCompareVal_AnyClass(paramT, getParam, Query) ==
    \/ RemoveCv(Query) = RemoveCv(paramT)
    \/ /\ Query.targs \in {3, 4}
       /\ ~Query.cv
       /\ Query.vc = "val"
       /\ paramT.refbase
       /\ Query.refbase

\* ParamCompare<ParamSelectionT, Query>::val, given ParamSelectionT's ParamT
\* and GetParam().  Helper<Query> is the is_same specialisation, or one of
\* the two class-reference specialisations (three template arguments, or
\* four with the DangerousMoveTag), which only an unqualified class type
\* matches, or the primary template.  No representation of ProxyAsArg is
\* itself a class-reference template, so the is_same specialisation and a
\* class-reference one never both apply.
ParamCompareVal(paramT, getParam, Query) ==
    IF RemoveCv(Query) = RemoveCv(paramT)
    THEN TRUE
    ELSE IF /\ Query.targs \in {3, 4}
            /\ ~Query.cv
            /\ Query.vc = "val"
            /\ paramT.refbase
            /\ Query.refbase
    THEN Query.cls = getParam.name_
    ELSE FALSE

\* ParamSelection::viable<T>
ParamViable(m, overload_idx, permutation_idx, param_idx, T) ==
    ParamCompareVal(ParamT(m, overload_idx, permutation_idx, param_idx),
                    GetParam(m, overload_idx, param_idx), T)

\* Mutant: a permutation needs at least one argument to match.
PermutationViable_NonEmpty(m, overload_idx, permutation_idx, Ts) ==
    /\ Ts /= <<>>
    /\ \A Is \in 0 .. Len(Ts) - 1 :
           ParamCompareVal(ParamsProxied(m, overload_idx)[Is + 1]
                               [GetBit(Increment_t(NBitSequence(m, overload_idx),
                                                   permutation_idx), Is).value_ + 1],
                           GetParams(m, overload_idx)[Is + 1], Ts[Is + 1])

\* Permutation::PermutationViable: Param<Is>::viable<Ts> && ... over
\* index_sequence_for<Ts...>.
PermutationViable(m, overload_idx, permutation_idx, Ts) ==
    \A Is \in 0 .. Len(Ts) - 1 :
        ParamViable(m, overload_idx, permutation_idx, Is, Ts[Is + 1])

\* Mutant: viability is reported as a flag, not as the index.
Permutation_PermutationIdxIfViable_Flag(m, overload_idx, permutation_idx, Ts) ==
    IF PermutationViable(m, overload_idx, permutation_idx, Ts)
    THEN 0
    ELSE kNoSelection

\* Permutation::PermutationIdxIfViable
Permutation_PermutationIdxIfViable(m, overload_idx, permutation_idx, Ts) ==
    IF PermutationViable(m, overload_idx, permutation_idx, Ts)
    THEN permutation_idx
    ELSE kNoSelection

\* ------------------------------------------- Overload, against arguments

\* Overload::Helper::first_valid_permutation, over
\* make_index_sequence<permutation_count>.
first_valid_permutation(m, overload_idx, Ts) ==
    StdMin({Permutation_PermutationIdxIfViable(m, overload_idx, Is, Ts) :
                Is \in 0 .. permutation_count(m, overload_idx) - 1})

\* Mutant: the arity check only rejects calls with too many arguments.
PermutationIdxIfViable_TooManyOnly(m, overload_idx, Ts) ==
    IF Len(Ts) > Len(GetParams(m, overload_idx))
    THEN kNoSelection
    ELSE first_valid_permutation(m, overload_idx, Ts)

\* Overload::PermutationIdxIfViable
PermutationIdxIfViable(m, overload_idx, Ts) ==
    IF Len(Ts) /= Len(GetParams(m, overload_idx))
    THEN kNoSelection
    ELSE first_valid_permutation(m, overload_idx, Ts)

\* Overload::OverloadViable
OverloadViable(m, overload_idx, Ts) ==
    PermutationIdxIfViable(m, overload_idx, Ts) /= kNoSelection

\* Mutant: the index is reported whether or not the overload is viable.
OverloadIdxIfViable_Always(m, overload_idx, Ts) == overload_idx

\* Overload::OverloadIdxIfViable
OverloadIdxIfViable(m, overload_idx, Ts) ==
    IF OverloadViable(m, overload_idx, Ts) THEN overload_idx ELSE kNoSelection

\* --------------------------------------------------------- MethodSelection

\* MethodSelection::Helper::val, over make_index_sequence<NumOverloads()>;
\* the fold over no overloads is false.
Helper_val(m, Ts) ==
    \E Is \in 0 .. NumOverloads(m) - 1 : OverloadViable(m, Is, Ts)

\* Mutant: the second component is the largest of the overloads' permutation
\* indices instead of the smallest.
overload_permutation_idx_if_valid_MaxSecond(m, Ts) ==
    IF NumOverloads(m) = 0
    THEN [built |-> FALSE]
    ELSE LET seconds == {PermutationIdxIfViable(m, Is, Ts) :
                            Is \in 0 .. NumOverloads(m) - 1}
         IN [built |-> TRUE,
             first |-> StdMin({OverloadIdxIfViable(m, Is, Ts) :
                                  Is \in 0 .. NumOverloads(m) - 1}),
             second |-> CHOOSE x \in seconds : \A y \in seconds : y <= x]

\* MethodSelection::Helper::overload_permutation_idx_if_valid.  With no
\* overloads both initialisers are std::min({}), for which no overload of
\* std::min is viable: the member does not compile, and built is FALSE.
overload_permutation_idx_if_valid(m, Ts) ==
    IF NumOverloads(m) = 0
    THEN [built |-> FALSE]
    ELSE [built |-> TRUE,
          first |-> StdMin({OverloadIdxIfViable(m, Is, Ts) :
                               Is \in 0 .. NumOverloads(m) - 1}),
          second |-> StdMin({PermutationIdxIfViable(m, Is, Ts) :
                                Is \in 0 .. NumOverloads(m) - 1})]

\* MethodSelection::ArgSetViable
ArgSetViable(m, Ts) == Helper_val(m, DecayAll(Ts))

\* Mutant: the argument types are compared as deduced.
IdxPair_Undecayed(m, Ts) == overload_permutation_idx_if_valid(m, Ts)

\* MethodSelection::IdxPair
IdxPair(m, Ts) == overload_permutation_idx_if_valid(m, DecayAll(Ts))

\* ------------------------------------------------------------------ inputs

\* The declared parameter types of the methods resolved in Spec.
DeclParams == {JInt, JString, JView}

\* The parameter lists of at most n parameters.
ParamLists(decls, n) == UNION {[1 .. k -> decls] : k \in 0 .. n}

\* The methods of at most n overloads (none included) that declare at most
\* budget parameters between them.
RECURSIVE MethodsWithin(_, _)
MethodsWithin(n, budget) ==
    IF n = 0 THEN {<<>>}
    ELSE {<<>>} \cup
         UNION {{<<o>> \o rest : rest \in MethodsWithin(n - 1, budget - Len(o))} :
                   o \in ParamLists(DeclParams, budget)}

Methods == MethodsWithin(MaxOverloads, MaxParams)

\* The argument types of a call site, as deduced: plain, or qualified.
ArgTypes == {IntT, OwnedString, StringView, LRef(Const(StringView))}

ArgLists == UNION {[1 .. k -> ArgTypes] : k \in 0 .. MaxArgs}

\* ------------------------------------------------------------ Spec: resolve

Init ==
    /\ method \in Methods
    /\ args \in ArgLists
    /\ viable = <<>>
    /\ pair = <<>>
    /\ ovl = <<>>
    /\ decoded = <<>>
    /\ param = JInt
    /\ sel = 0
    /\ query = IntT
    /\ cmp = <<>>
    /\ seen = {}
    /\ found = <<>>
    /\ ldr = <<>>

\* A use of MethodSelection::ArgSetViable<Ts...>().
Instantiate_ArgSetViable ==
    /\ viable = <<>>
    /\ viable' = <<ArgSetViable(method, args)>>
    /\ UNCHANGED <<seen, found, ldr, method, args, pair, ovl, decoded, param, sel, query, cmp>>

\* A use of MethodSelection::IdxPair<Ts...>().
Instantiate_IdxPair ==
    /\ pair = <<>>
    /\ pair' = <<IdxPair(method, args)>>
    /\ UNCHANGED <<seen, found, ldr, method, args, viable, ovl, decoded, param, sel, query, cmp>>

Next ==
    \/ Instantiate_ArgSetViable
    \/ Instantiate_IdxPair

Spec == Init /\ [][Next]_vars

\* ------------------------------------- SpecPerm: permutations of an overload

\* The declared parameter types of the overload enumerated in SpecPerm.
PermDeclParams == {JInt, JString, JCharSeq, Object("Foo")}

InitPerm ==
    /\ ovl \in ParamLists(PermDeclParams, MaxPermParams)
    /\ decoded = <<>>
    /\ method = <<>>
    /\ args = <<>>
    /\ viable = <<>>
    /\ pair = <<>>
    /\ param = JInt
    /\ sel = 0
    /\ query = IntT
    /\ cmp = <<>>
    /\ seen = {}
    /\ found = <<>>
    /\ ldr = <<>>

\* make_index_sequence<permutation_count> has an index after those
\* instantiated so far.
MorePermutations == Len(decoded) < permutation_count(<<ovl>>, 0)

\* Overload::Helper expands Permutation<MethodSelectionT, Overload, Is> over
\* make_index_sequence<permutation_count>: the next Is is instantiated, and
\* its ParamSelection::selection_idx of every parameter recorded.
Instantiate_Permutation ==
    LET Is == Len(decoded)
    IN /\ MorePermutations
       /\ decoded' =
              Append(decoded,
                     [idx |-> Is,
                      digits |-> [param_idx \in 0 .. Len(ovl) - 1 |->
                                     selection_idx(<<ovl>>, 0, Is, param_idx)]])
       /\ UNCHANGED <<seen, found, ldr, ovl, method, args, viable, pair, param, sel, query, cmp>>

NextPerm == Instantiate_Permutation

SpecPerm == InitPerm /\ [][NextPerm]_vars

\* ------------------------------------------- SpecCompare: one ParamCompare

\* The declared parameters compared in SpecCompare.
CompareDeclParams ==
    {JInt, JString, JCharSeq, Object("Foo"), Object("Bar")}

\* The supplied types compared in SpecCompare, as the call site writes them.
QueryTypes ==
    LET plain == {IntT, OwnedString, StringView, CharPtr, JObject,
                  LocalObject("Foo"), LocalObject("Bar"),
                  GlobalObject("Foo"), GlobalObject("Bar"),
                  LocalObjectMove("Foo"), LocalObjectMove("Bar"),
                  LocalArray("Foo")}
    IN plain \cup {Const(t) : t \in plain}
             \cup {LRef(t) : t \in plain}
             \cup {RRef(t) : t \in plain}

InitCompare ==
    /\ param \in CompareDeclParams
    /\ sel \in 0 .. Len(ProxyAsArg(param)) - 1
    /\ query \in QueryTypes
    /\ cmp = <<>>
    /\ seen = {}
    /\ found = <<>>
    /\ ldr = <<>>
    /\ method = <<>>
    /\ args = <<>>
    /\ viable = <<>>
    /\ pair = <<>>
    /\ ovl = <<>>
    /\ decoded = <<>>

\* Permutation<..., sel>::PermutationViable<std::decay_t<Query>> of the
\* overload whose only parameter is param: one ParamCompare, of the
\* representation sel selects, against the argument type as MethodSelection
\* hands it on.
Instantiate_ParamCompare ==
    /\ cmp = <<>>
    /\ cmp' = <<PermutationViable(<< <<param>> >>, 0, sel, DecayAll(<<query>>))>>
    /\ UNCHANGED <<seen, found, ldr, param, sel, query, method, args, viable, pair, ovl, decoded>>

NextCompare == Instantiate_ParamCompare

SpecCompare == InitCompare /\ [][NextCompare]_vars

\* ------------------------------- SpecDecay: one call, qualified differently

\* The declared parameter types of the methods resolved in SpecDecay.
DecayDeclParams == {JInt, JString}

\* The methods of at most n overloads (none included) over DecayDeclParams
\* that declare at most budget parameters between them.
RECURSIVE DecayMethodsWithin(_, _)
DecayMethodsWithin(n, budget) ==
    IF n = 0 THEN {<<>>}
    ELSE {<<>>} \cup
         UNION {{<<o>> \o rest :
                    rest \in DecayMethodsWithin(n - 1, budget - Len(o))} :
                   o \in ParamLists(DecayDeclParams, budget)}

\* The ways a call site hands over an argument of type t: Ts is deduced as T
\* for an rvalue (std::move included), const T for a const rvalue, T& for an
\* lvalue, const T& for a const lvalue.
Qualified(t) == {t, Const(t), LRef(t), LRef(Const(t))}

DecayArgTypes == UNION {Qualified(t) : t \in {IntT, StringView}}

InitDecay ==
    /\ method \in DecayMethodsWithin(MaxOverloads, MaxDecayParams)
    /\ args \in UNION {[1 .. k -> DecayArgTypes] : k \in 0 .. MaxDecayArgs}
    /\ viable = <<>>
    /\ pair = <<>>
    /\ seen = {}
    /\ ovl = <<>>
    /\ decoded = <<>>
    /\ param = JInt
    /\ sel = 0
    /\ query = IntT
    /\ cmp = <<>>
    /\ found = <<>>
    /\ ldr = <<>>

\* The call just resolved is written again with one argument handed over
\* differently (GenericMethodTest passes arr, then std::move(arr)): the
\* answers given are kept in seen, and the new call is yet to be resolved.
Requalify ==
    /\ viable /= <<>>
    /\ pair /= <<>>
    /\ \E i \in DOMAIN args :
           \E t \in Qualified(Decay(args[i])) \ {args[i]} :
               args' = [args EXCEPT ![i] = t]
    /\ seen' = seen \cup {[viable |-> viable[1], pair |-> pair[1]]}
    /\ viable' = <<>>
    /\ pair' = <<>>
    /\ UNCHANGED <<found, ldr, method, ovl, decoded, param, sel, query, cmp>>

NextDecay ==
    \/ Instantiate_ArgSetViable
    \/ Instantiate_IdxPair
    \/ Requalify

SpecDecay == InitDecay /\ [][NextDecay]_vars

\* ------------------------------------- SpecLoader: default_class_loader.h

kClassNotInLoaderSetIdx == -1

\* The conversion of an int to std::size_t, as a return statement or a
\* comparison with a size_t performs it: a negative value wraps around, -1
\* to the largest size_t.
ToSizeT(x) == IF x < 0 THEN kNoSelection + (1 + x) ELSE x

\* Mutant: the default loader supplies every class, asked either way.
DefaultClassLoader_SupportedDirectlyOrIndirectly_Always(class_v, ignore_default_loader) ==
    TRUE

\* DefaultClassLoader::SupportedDirectlyOrIndirectly
DefaultClassLoader_SupportedDirectlyOrIndirectly(class_v, ignore_default_loader) ==
    IF ignore_default_loader THEN FALSE ELSE TRUE

\* DefaultClassLoader::IdxOfClass, an int.
DefaultClassLoader_IdxOfClass(class_v) == kClassNotInLoaderSetIdx

\* DefaultClassLoader::IdxOfAncestor, a std::size_t.
DefaultClassLoader_IdxOfAncestor(class_v, cur_idx) ==
    ToSizeT(kClassNotInLoaderSetIdx)

\* NullClassLoader::SupportedDirectlyOrIndirectly
NullClassLoader_SupportedDirectlyOrIndirectly(class_v, ignore_default_loader) ==
    FALSE

\* NullClassLoader::IdxOfAncestor, a std::size_t.
NullClassLoader_IdxOfAncestor(class_v, cur_idx) ==
    ToSizeT(kClassNotInLoaderSetIdx)

\* The classes asked for.
LoaderClasses == {"kClass", "kClass2"}

\* One query: the loader, the template arguments and cur_idx, and the answer
\* of each member once it has been called (<<>> before).
InitLoader ==
    /\ ldr \in [loader : {"DefaultClassLoader", "NullClassLoader"},
                class_v : LoaderClasses,
                ignore_default_loader : BOOLEAN,
                cur_idx : 0 .. MaxCurIdx,
                supported : {<<>>},
                idx_of_class : {<<>>},
                idx_of_ancestor : {<<>>}]
    /\ method = <<>>
    /\ args = <<>>
    /\ viable = <<>>
    /\ pair = <<>>
    /\ seen = {}
    /\ ovl = <<>>
    /\ decoded = <<>>
    /\ param = JInt
    /\ sel = 0
    /\ query = IntT
    /\ cmp = <<>>
    /\ found = <<>>

Call_SupportedDirectlyOrIndirectly ==
    /\ ldr.supported = <<>>
    /\ ldr' = [ldr EXCEPT !.supported =
                  IF ldr.loader = "DefaultClassLoader"
                  THEN <<DefaultClassLoader_SupportedDirectlyOrIndirectly(
                             ldr.class_v, ldr.ignore_default_loader)>>
                  ELSE <<NullClassLoader_SupportedDirectlyOrIndirectly(
                             ldr.class_v, ldr.ignore_default_loader)>>]
    /\ UNCHANGED <<seen, found, method, args, viable, pair, ovl, decoded,
                   param, sel, query, cmp>>

\* Only DefaultClassLoader declares IdxOfClass.
Call_IdxOfClass ==
    /\ ldr.loader = "DefaultClassLoader"
    /\ ldr.idx_of_class = <<>>
    /\ ldr' = [ldr EXCEPT !.idx_of_class =
                  <<DefaultClassLoader_IdxOfClass(ldr.class_v)>>]
    /\ UNCHANGED <<seen, found, method, args, viable, pair, ovl, decoded,
                   param, sel, query, cmp>>

Call_IdxOfAncestor ==
    /\ ldr.idx_of_ancestor = <<>>
    /\ ldr' = [ldr EXCEPT !.idx_of_ancestor =
                  IF ldr.loader = "DefaultClassLoader"
                  THEN <<DefaultClassLoader_IdxOfAncestor(ldr.class_v, ldr.cur_idx)>>
                  ELSE <<NullClassLoader_IdxOfAncestor(ldr.class_v, ldr.cur_idx)>>]
    /\ UNCHANGED <<seen, found, method, args, viable, pair, ovl, decoded,
                   param, sel, query, cmp>>

NextLoader ==
    \/ Call_SupportedDirectlyOrIndirectly
    \/ Call_IdxOfClass
    \/ Call_IdxOfAncestor

SpecLoader == InitLoader /\ [][NextLoader]_vars

\* ------------------------------------------- SpecFind: the Find aliases

\* Overload<MethodSelection, idx> as an alias names it: the alias exists when
\* the pair its index is read from does, and names index idx.
OverloadNamed(p, idx) ==
    IF p.built THEN [built |-> TRUE, overload_idx |-> idx]
    ELSE [built |-> FALSE]

\* MethodSelection::FindOverload
FindOverload(m, Ts) ==
    LET p == IdxPair(m, Ts)
    IN OverloadNamed(p, IF p.built THEN p.first ELSE kNoSelection)

\* MethodSelection::FindPermutation: Overload, with IdxPair().second.
FindPermutation(m, Ts) ==
    LET p == IdxPair(m, Ts)
    IN OverloadNamed(p, IF p.built THEN p.second ELSE kNoSelection)

\* FindOverload_t
FindOverload_t(m, Args) == FindOverload(m, Args)

\* FindPermutation_t names the member FindPermuation, which MethodSelection
\* does not declare: no instantiation of it compiles.
FindPermutation_t(m, Args) == [built |-> FALSE]

\* The aliases of one call, none instantiated yet.
InitFind ==
    /\ method \in Methods
    /\ args \in ArgLists
    /\ found = [FindOverload |-> <<>>, FindPermutation |-> <<>>,
                FindOverload_t |-> <<>>, FindPermutation_t |-> <<>>]
    /\ viable = <<>>
    /\ pair = <<>>
    /\ seen = {}
    /\ ovl = <<>>
    /\ decoded = <<>>
    /\ param = JInt
    /\ sel = 0
    /\ query = IntT
    /\ cmp = <<>>
    /\ ldr = <<>>

Instantiate_FindOverload ==
    /\ found.FindOverload = <<>>
    /\ found' = [found EXCEPT !.FindOverload = <<FindOverload(method, args)>>]
    /\ UNCHANGED <<seen, ldr, method, args, viable, pair, ovl, decoded,
                   param, sel, query, cmp>>

Instantiate_FindPermutation ==
    /\ found.FindPermutation = <<>>
    /\ found' = [found EXCEPT
                    !.FindPermutation = <<FindPermutation(method, args)>>]
    /\ UNCHANGED <<seen, ldr, method, args, viable, pair, ovl, decoded,
                   param, sel, query, cmp>>

Instantiate_FindOverload_t ==
    /\ found.FindOverload_t = <<>>
    /\ found' = [found EXCEPT
                    !.FindOverload_t = <<FindOverload_t(method, args)>>]
    /\ UNCHANGED <<seen, ldr, method, args, viable, pair, ovl, decoded,
                   param, sel, query, cmp>>

Instantiate_FindPermutation_t ==
    /\ found.FindPermutation_t = <<>>
    /\ found' = [found EXCEPT
                    !.FindPermutation_t = <<FindPermutation_t(method, args)>>]
    /\ UNCHANGED <<seen, ldr, method, args, viable, pair, ovl, decoded,
                   param, sel, query, cmp>>

NextFind ==
    \/ Instantiate_FindOverload
    \/ Instantiate_FindPermutation
    \/ Instantiate_FindOverload_t
    \/ Instantiate_FindPermutation_t

SpecFind == InitFind /\ [][NextFind]_vars

\* ================================================================== claims

\* The arguments of the call, as the selection compares them.
CallTs == DecayAll(args)

\* Some representation of declared parameter p matches supplied type T.
RefParamMatches(p, T) ==
    \E k \in DOMAIN ProxyAsArg(p) : ParamCompareVal(ProxyAsArg(p)[k], p, T)

\* The overload with parameter list o is viable for Ts: the arities agree
\* and some combination of representations, one per parameter, matches every
\* argument (a combination exists iff every parameter has a matching
\* representation).
RefOverloadViable(o, Ts) ==
    /\ Len(Ts) = Len(o)
    /\ \A i \in DOMAIN o : RefParamMatches(o[i], Ts[i])

\* The indices of the overloads of the method viable for the call.
RefViableOverloads ==
    {i \in 0 .. Len(method) - 1 : RefOverloadViable(method[i + 1], CallTs)}

\* The no-match pair {kNoSelection, kNoSelection}.
NoMatch == [built |-> TRUE, first |-> kNoSelection, second |-> kNoSelection]

\* C1: when some overload is viable, IdxPair().first is the lowest index
\* among the viable overloads, whatever the other viable overloads are.
C1_FirstIsLowestViableOverload ==
    (pair /= <<>> /\ RefViableOverloads /= {}) =>
        /\ pair[1].built
        /\ pair[1].first \in RefViableOverloads
        /\ \A i \in RefViableOverloads : pair[1].first <= i

\* C1 witness: two overloads with different parameter lists are both viable
\* and the first of them is selected.
C1_Witness ==
    /\ pair /= <<>>
    /\ RefViableOverloads = {0, 1}
    /\ method[1] /= method[2]
    /\ pair[1].first = 0

\* The lowest permutation index of overload overload_idx that matches every
\* argument of the call (kNoSelection when none does).
RefFirstPermutation(overload_idx) ==
    LET ok == {p \in 0 .. permutation_count(method, overload_idx) - 1 :
                  /\ Len(CallTs) = Len(GetParams(method, overload_idx))
                  /\ PermutationViable(method, overload_idx, p, CallTs)}
    IN IF ok = {} THEN kNoSelection ELSE StdMin(ok)

\* C2: whenever resolution succeeds, IdxPair().second is the lowest viable
\* permutation index of the overload IdxPair().first names, and that
\* permutation matches every argument of the call.
C2_PermutationWithinSelectedOverload ==
    (pair /= <<>> /\ RefViableOverloads /= {}) =>
        /\ pair[1].built
        /\ pair[1].second = RefFirstPermutation(pair[1].first)
        /\ PermutationViable(method, pair[1].first, pair[1].second, CallTs)

\* C3: IdxPair() is {kNoSelection, kNoSelection} exactly when no overload is
\* viable, its components are the sentinel together or not at all, and
\* ArgSetViable() is true iff the pair is not the sentinel.
C3_NoMatchExactlyWhenNothingViable ==
    /\ pair /= <<>> =>
           /\ pair[1].built
           /\ (pair[1] = NoMatch) <=> (RefViableOverloads = {})
           /\ (pair[1].first = kNoSelection) <=> (pair[1].second = kNoSelection)
    /\ (pair /= <<>> /\ viable /= <<>>) =>
           (viable[1] <=> (pair[1] /= NoMatch))

\* C4: an overload whose number of parameters differs from the number of
\* arguments is not viable, whatever the types, and is never the overload
\* selected; when every overload differs in arity nothing is selected.
C4_ArityGate ==
    LET off == {i \in 0 .. Len(method) - 1 : Len(method[i + 1]) /= Len(args)}
    IN /\ \A i \in off :
              /\ PermutationIdxIfViable(method, i, CallTs) = kNoSelection
              /\ ~OverloadViable(method, i, CallTs)
              /\ pair /= <<>> => pair[1].first /= i
       /\ (off = 0 .. Len(method) - 1 /\ method /= <<>>) =>
              /\ viable /= <<>> => ~viable[1]
              /\ pair /= <<>> => pair[1] = NoMatch

\* C4 witness: the first overload takes fewer parameters than the call has
\* arguments, of types its parameters accept, and a later overload is the one
\* selected.
C4_Witness ==
    /\ pair /= <<>>
    /\ viable /= <<>>
    /\ Len(method) = 2
    /\ Len(method[1]) = 1
    /\ Len(args) = 2
    /\ RefParamMatches(method[1][1], CallTs[1])
    /\ pair[1].first = 1

\* C5: with no overloads, ArgSetViable() is false and IdxPair() is the
\* no-match pair, for every argument list.
C5_EmptyOverloadSetNoMatch ==
    method = <<>> =>
        /\ viable /= <<>> => ~viable[1]
        /\ pair /= <<>> => pair[1] = NoMatch

\* The product of the proxy-set sizes of the parameters of o, 1 for none.
RECURSIVE RefPermutationCount(_)
RefPermutationCount(o) ==
    IF o = <<>> THEN 1
    ELSE Len(ProxyAsArg(Head(o))) * RefPermutationCount(Tail(o))

\* C6: permutation_count is the product of the proxy-set sizes of the
\* overload's parameters, 1 (not 0) for no parameters and 6 for sizes
\* {2, 1, 3}; the permutation indices instantiated are 0, 1, ... and go on
\* until exactly 0 .. permutation_count - 1 have been.
C6_PermutationCountIsProduct ==
    /\ permutation_count(<<ovl>>, 0) = RefPermutationCount(ovl)
    /\ ovl = <<>> => permutation_count(<<ovl>>, 0) = 1
    /\ ovl = <<JString, JInt, JCharSeq>> => permutation_count(<<ovl>>, 0) = 6
    /\ {decoded[k].idx : k \in DOMAIN decoded} = 0 .. Len(decoded) - 1
    /\ Len(decoded) <= RefPermutationCount(ovl)
    /\ Len(decoded) < RefPermutationCount(ovl) => MorePermutations

\* C6 witness: every permutation of String, int, CharSequence (proxy-set
\* sizes 2, 1, 3) has been instantiated, and there are 6.
C6_Witness ==
    /\ ovl = <<JString, JInt, JCharSeq>>
    /\ Len(decoded) = 6

\* The combinations of one representation index per parameter of o.
RefCombinations(o) ==
    LET sizes == {Len(ProxyAsArg(o[i])) : i \in DOMAIN o}
        most == IF sizes = {} THEN 0 ELSE StdMin({x \in sizes : \A y \in sizes : y <= x})
    IN {f \in [0 .. Len(o) - 1 -> 0 .. most] :
           \A i \in 0 .. Len(o) - 1 : f[i] < Len(ProxyAsArg(o[i + 1]))}

\* C7: every permutation index decodes to one digit per parameter, each
\* below its own parameter's proxy-set size; different indices decode to
\* different combinations; and over 0 .. permutation_count - 1 every
\* combination of the Cartesian product is produced.
C7_DecodeIsBijection ==
    /\ \A k \in DOMAIN decoded : decoded[k].digits \in RefCombinations(ovl)
    /\ \A j, k \in DOMAIN decoded :
           decoded[j].digits = decoded[k].digits => decoded[j].idx = decoded[k].idx
    /\ Len(decoded) = RefPermutationCount(ovl) =>
           {decoded[k].digits : k \in DOMAIN decoded} = RefCombinations(ovl)

\* C7 witness: three parameters of two or more representations each, of
\* different radixes, all permutations decoded.
C7_Witness ==
    /\ Len(ovl) = 3
    /\ \A i \in DOMAIN ovl : Len(ProxyAsArg(ovl[i])) >= 2
    /\ \E i, j \in DOMAIN ovl : Len(ProxyAsArg(ovl[i])) /= Len(ProxyAsArg(ovl[j]))
    /\ Len(decoded) = RefPermutationCount(ovl)

\* C8: a supplied class reference (local or global, moved or not) matches
\* the class-reference representation iff its class name is the declared
\* class name; any other supplied type matches exactly the representation of
\* the same type once qualifiers are stripped; nothing else matches.
C8_ObjectsMatchByClassName ==
    LET rep == ProxyAsArg(param)[sel + 1]
        suppliedIsObject == query.id \in {"LocalObject", "GlobalObject"}
        repIsObject == rep.id = "RefBaseTag<jobject>"
    IN cmp /= <<>> =>
           cmp[1] = IF suppliedIsObject
                    THEN repIsObject /\ query.cls = param.name_
                    ELSE [query EXCEPT !.cv = FALSE, !.vc = "val"] = rep

\* C8 witness: a moved local reference of class Foo, passed as an rvalue,
\* matches the class-reference representation of a parameter of class Foo.
C8_Witness ==
    /\ param = Object("Foo")
    /\ sel = 1
    /\ query = RRef(LocalObjectMove("Foo"))
    /\ cmp = <<TRUE>>

\* C9: a zero-parameter overload has one permutation, index 0, viable
\* exactly when the call has no arguments; a call without arguments on a
\* method that has such an overload resolves to (i, 0), i the lowest index
\* of one.
C9_ZeroParameterOverload ==
    LET zero == {i \in 0 .. Len(method) - 1 : method[i + 1] = <<>>}
    IN /\ \A i \in zero :
              /\ permutation_count(method, i) = 1
              /\ PermutationIdxIfViable(method, i, CallTs) =
                     IF args = <<>> THEN 0 ELSE kNoSelection
       /\ (args = <<>> /\ zero /= {}) =>
              /\ viable /= <<>> => viable[1]
              /\ pair /= <<>> =>
                     pair[1] = [built |-> TRUE, first |-> StdMin(zero), second |-> 0]

\* C9 witness: the zero-parameter overload comes second, after an overload
\* with parameters, and a call without arguments selects it.
C9_Witness ==
    /\ Len(method) = 2
    /\ method[1] /= <<>>
    /\ method[2] = <<>>
    /\ args = <<>>
    /\ viable = <<TRUE>>
    /\ pair /= <<>>
    /\ pair[1].first = 1
    /\ pair[1].second = 0

\* C10: for m(int), m(String) with String accepted as OwnedString (0) or
\* StringView (1), args [StringView] resolve to (1, 1) and args [int, int]
\* to no match.
C10_EndToEnd ==
    (method = << <<JInt>>, <<JString>> >> /\ pair /= <<>>) =>
        /\ CallTs = <<StringView>> =>
               pair[1] = [built |-> TRUE, first |-> 1, second |-> 1]
        /\ CallTs = <<IntT, IntT>> => pair[1] = NoMatch

\* C10 witness: the StringView call has been resolved to (1, 1).
C10_Witness ==
    /\ method = << <<JInt>>, <<JString>> >>
    /\ args = <<StringView>>
    /\ pair /= <<>>
    /\ pair[1].first = 1
    /\ pair[1].second = 1

\* C11: however the arguments of a call are handed over (lvalue, rvalue,
\* const or reference qualified), ArgSetViable() and IdxPair() answer as they
\* did for the same arguments handed over in any other way.
C11_QualificationDoesNotMatter ==
    \A r \in seen :
        /\ viable /= <<>> => viable[1] = r.viable
        /\ pair /= <<>> => pair[1] = r.pair

\* C11 witness: a two-argument call that resolves, written a second time
\* with a const lvalue where the first had an rvalue, has been resolved again.
C11_Witness ==
    /\ seen /= {}
    /\ viable = <<TRUE>>
    /\ pair /= <<>>
    /\ Len(args) = 2
    /\ \E i \in DOMAIN args : args[i] = LRef(Const(StringView))

\* What C12 says of the indices and of NullClassLoader: IdxOfClass and
\* IdxOfAncestor compare equal to kClassNotInLoaderSetIdx for every class
\* (IdxOfAncestor is a size_t, and the comparison converts), and
\* NullClassLoader supports no class, asked either way.
LoaderIndicesAndNull ==
    /\ ldr.idx_of_class /= <<>> => ldr.idx_of_class[1] = kClassNotInLoaderSetIdx
    /\ ldr.idx_of_ancestor /= <<>> =>
           ldr.idx_of_ancestor[1] = ToSizeT(kClassNotInLoaderSetIdx)
    /\ (ldr.loader = "NullClassLoader" /\ ldr.supported /= <<>>) =>
           ~ldr.supported[1]

C13_PermutationIndexInRange ==
    /\ (pair /= <<>> /\ RefViableOverloads /= {}) =>
           /\ pair[1].built
           /\ pair[1].first < NumOverloads(method)
           /\ pair[1].second < permutation_count(method, pair[1].first)
    /\ (pair /= <<>> /\ pair[1].built) =>
           ((pair[1].first = kNoSelection) <=> (pair[1].second = kNoSelection))

\* C13 witness: resolution succeeded and the permutation index returned is
\* not the first viable permutation of the overload returned, another viable
\* overload having contributed a lower one.
C13_Witness ==
    /\ pair /= <<>>
    /\ Cardinality(RefViableOverloads) = 2
    /\ pair[1].second /= RefFirstPermutation(pair[1].first)
    /\ \E i \in RefViableOverloads :
           /\ i /= pair[1].first
           /\ pair[1].second = RefFirstPermutation(i)

\* C14: whenever resolution succeeds, the index FindPermutation<Args...>
\* instantiates Overload with is a valid overload index (below
\* NumOverloads()) and names the same overload as FindOverload<Args...>.
C14_FindPermutationNamesSelectedOverload ==
    (RefViableOverloads /= {} /\ found.FindPermutation /= <<>>) =>
        /\ found.FindPermutation[1].built
        /\ found.FindPermutation[1].overload_idx < NumOverloads(method)
        /\ found.FindOverload /= <<>> =>
               found.FindPermutation[1] = found.FindOverload[1]

====
